---- MODULE Spec2Model ----
(***************************************************************************)
(* Tiered authentication / rate limiting / feature gate / credit gate      *)
(* middleware of WCAGAI v4.0 (backend/src/middleware/auth.js).             *)
(*                                                                         *)
(* JavaScript values are encoded as follows.                               *)
(*   - an optional value is a sequence: << >> is undefined, <<v>> is v;    *)
(*   - a plan (tier) is a string, "" standing for undefined / empty;       *)
(*   - time is an integer number of milliseconds (Date.now()).             *)
(***************************************************************************)
EXTENDS Integers, Sequences, FiniteSets, TLC

VARIABLES
    env,      \* process.env as read when the modules are loaded
    batch,    \* the generateBatchFixes call in progress
    now,      \* Date.now(), in milliseconds
    token,    \* the session token handed to the caller: << >> or <<tok>>
    issued,   \* the generateToken call that made it: << >> or <<[user, at]>>
    reqs,     \* the request objects (req, res and the position in the chain)
    log,      \* outcomes of the checkCredits calls made on one request object
    accepted, \* requests of the current window that the rate limiter let through
    limited   \* requests of the current window answered 429

vars == <<env, batch, now, token, issued, reqs, log, accepted, limited>>

----------------------------------------------------------------------------
(* Bounds of the model *)

MaxReqs == 2          \* request objects alive at the same time
MaxCalls == 3         \* checkCredits calls made on one request object
MaxWindowReqs == 1002 \* requests one caller issues within one window

ReqIds == 1..MaxReqs

----------------------------------------------------------------------------
(* JavaScript helpers *)

Undefined == << >>

Some(v) == <<v>>

\* a || b on optional integers: undefined and 0 are falsy
OrInt(opt, d) == IF opt = Undefined \/ opt[1] = 0 THEN d ELSE opt[1]

\* a || b on strings: undefined / '' is falsy
OrStr(s, d) == IF s = "" THEN d ELSE s

\* Property names every object literal inherits from Object.prototype
ObjectPrototypeKeys == {"constructor", "toString", "valueOf", "hasOwnProperty", "__proto__"}

\* Math.floor(ms / 1000), as jsonwebtoken computes its timestamps
FloorSec(ms) == ms \div 1000

----------------------------------------------------------------------------
(* Environment *)

\* a deployment with its signing secret configured
ConfiguredEnv == [JWT_SECRET |-> "secret-from-env", NODE_ENV |-> "production"]

\* the environments a process can be started in; '' stands for an unset variable
Envs == {[JWT_SECRET |-> s, NODE_ENV |-> e] :
            s \in {"", "secret-from-env"}, e \in {"production", "development"}}

\* no generateBatchFixes call has been made
NoBatch == [pc |-> "none"]

----------------------------------------------------------------------------
(* JWT_SECRET and the jsonwebtoken calls *)

\* process.env.JWT_SECRET || 'wcagai-v4-revenue-secret-2025'
JWT_SECRET == OrStr(env.JWT_SECRET, "wcagai-v4-revenue-secret-2025")

ExpiresInSec == 24 * 60 * 60

\* the MAC of a payload under a key
Mac(payload, key) == [key |-> key, over |-> payload]

\* jwt.sign(payload, secret, { expiresIn: '24h' }) at time t
jwtSign(claims, key, t) ==
    LET payload == [id |-> claims.id, email |-> claims.email, plan |-> claims.plan,
                    credits |-> claims.credits, company |-> claims.company,
                    iat |-> FloorSec(t), exp |-> FloorSec(t) + ExpiresInSec]
    IN  [malformed |-> FALSE, payload |-> payload, mac |-> Mac(payload, key)]

\* jwt.verify as it would be with the expiry check left out
jwtVerify_IgnoreExpiration(tok, key, t) ==
    IF tok.malformed
      THEN [err |-> "JsonWebTokenError", user |-> Undefined]
    ELSE IF tok.mac # Mac(tok.payload, key)
      THEN [err |-> "JsonWebTokenError", user |-> Undefined]
    ELSE [err |-> "", user |-> Some(tok.payload)]

\* jwt.verify(token, secret, callback) at time t: the (err, user) handed to the callback
jwtVerify(tok, key, t) ==
    IF tok.malformed
      THEN [err |-> "JsonWebTokenError", user |-> Undefined]
    ELSE IF tok.mac # Mac(tok.payload, key)
      THEN [err |-> "JsonWebTokenError", user |-> Undefined]
    ELSE IF FloorSec(t) >= tok.payload.exp
      THEN [err |-> "TokenExpiredError", user |-> Undefined]
    ELSE [err |-> "", user |-> Some(tok.payload)]

\* generateToken as it would be if it did not carry the balance over
generateToken_NoBalance(user, t) ==
    jwtSign([id |-> user.id, email |-> user.email,
             plan |-> OrStr(user.plan, "developer"),
             credits |-> 0,
             company |-> user.company],
            JWT_SECRET, t)

\* generateToken(user) at time t
generateToken(user, t) ==
    jwtSign([id |-> user.id, email |-> user.email,
             plan |-> OrStr(user.plan, "developer"),
             credits |-> OrInt(user.credits, 0),
             company |-> user.company],
            JWT_SECRET, t)

----------------------------------------------------------------------------
(* createRateLimit *)

WindowMs == 15 * 60 * 1000

limits ==
    [developer  |-> [windowMs |-> Some(WindowMs), max |-> Some(1000)],
     compliance |-> [windowMs |-> Some(WindowMs), max |-> Some(10000)],
     enterprise |-> [windowMs |-> Some(WindowMs), max |-> Some(100000)]]

\* express-rate-limit's own defaults, used for an option that is undefined
DefaultMax == 5

\* createRateLimit(tier): the options of the limiter it builds.  Every call
\* builds a new limiter with a store of its own.
createRateLimit(tier) ==
    LET limit == IF tier \in DOMAIN limits THEN limits[tier]
                 ELSE IF tier \in ObjectPrototypeKeys
                   THEN [windowMs |-> Undefined, max |-> Undefined]
                 ELSE limits.developer
    IN  [windowMs |-> limit.windowMs,
         max |-> limit.max,
         message |-> [error |-> "Rate limit exceeded",
                      tier |-> tier,
                      upgradeUrl |-> IF tier = "developer" THEN "/pricing" ELSE "/contact"]]

\* the ceiling a limiter enforces
LimiterMax(limiter) == IF limiter.max = Undefined THEN DefaultMax ELSE limiter.max[1]

----------------------------------------------------------------------------
(* Request objects *)

NoResponse == [status |-> 0]

\* a request object nothing has touched yet
IdleReq ==
    [stage |-> "idle", header |-> [words |-> 0], user |-> Undefined,
     limiter |-> Undefined, hits |-> 0, chain |-> << >>, feature |-> "",
     body |-> [cost |-> Undefined], res |-> NoResponse, sent |-> 0, nexts |-> 0,
     ran |-> << >>, events |-> << >>]

\* res.status(s).json(body): the terminal response of the request
Respond(req, mw, response) ==
    [req EXCEPT !.stage = "done", !.res = response, !.sent = @ + 1, !.ran = Append(@, mw)]

\* next(): control passes to the next middleware mounted on the route, or to the handler
CallNext(req, mw) ==
    [req EXCEPT !.stage = IF req.chain = << >> THEN "handler" ELSE Head(req.chain),
                !.chain = IF req.chain = << >> THEN << >> ELSE Tail(req.chain),
                !.nexts = @ + 1, !.ran = Append(@, mw)]

\* an exception thrown by a synchronous middleware: Express answers 500
Throw(req, mw, name) ==
    [req EXCEPT !.stage = "error", !.res = [status |-> 500, error |-> name],
                !.sent = @ + 1, !.ran = Append(@, mw)]

----------------------------------------------------------------------------
(* authenticateToken *)

\* authHeader && authHeader.split(' ')[1]
BearerToken(header) == IF header.words >= 2 THEN Some(header.credential) ELSE Undefined

\* authenticateToken(req, res, next) at time t, up to the call of the tier limiter
authenticateToken(req, t) ==
    LET tok == BearerToken(req.header)
    IN  IF tok = Undefined
          THEN Respond(req, "authenticateToken",
                       [status |-> 401, error |-> "Authentication required",
                        message |-> "Please sign in or upgrade your plan",
                        pricingUrl |-> "/pricing"])
        ELSE LET v == jwtVerify(tok[1], JWT_SECRET, t)
             IN  IF v.err # ""
                   THEN Respond(req, "authenticateToken",
                                [status |-> 403, error |-> "Invalid or expired token",
                                 message |-> "Please refresh your session"])
                 ELSE [req EXCEPT !.user = v.user,
                                  !.limiter = Some(createRateLimit(OrStr(v.user[1].plan, "developer"))),
                                  !.hits = 0,
                                  !.stage = "limiter",
                                  !.ran = Append(@, "authenticateToken")]

\* tierLimiter(req, res, next): count the request in the limiter's store, then decide
tierLimiter(req) ==
    LET totalHits == req.hits + 1
        counted == [req EXCEPT !.hits = totalHits]
    IN  IF totalHits > LimiterMax(req.limiter[1])
          THEN Respond(counted, "tierLimiter",
                       [status |-> 429, message |-> req.limiter[1].message])
        ELSE CallNext(counted, "tierLimiter")

----------------------------------------------------------------------------
(* requireFeature *)

\* the allow-lists as they would be with ai_fixes left out of the compliance list
features_NoAiFixes ==
    [developer  |-> <<"url_scan", "basic_reports">>,
     compliance |-> <<"url_scan", "vertical_discovery", "legal_risk">>,
     enterprise |-> <<"url_scan", "vertical_discovery", "ai_fixes", "legal_risk",
                      "api_access", "white_label">>]

features ==
    [developer  |-> <<"url_scan", "basic_reports">>,
     compliance |-> <<"url_scan", "vertical_discovery", "ai_fixes", "legal_risk">>,
     enterprise |-> <<"url_scan", "vertical_discovery", "ai_fixes", "legal_risk",
                      "api_access", "white_label">>]

\* Array.prototype.includes
Includes(arr, x) == \E i \in 1..Len(arr) : arr[i] = x

FeatureDenied(feature, plan) ==
    [status |-> 403, error |-> "Feature not available in your plan",
     feature |-> feature, currentPlan |-> plan, upgradeUrl |-> "/pricing",
     upgradePrice |-> IF feature = "vertical_discovery" THEN 299
                      ELSE IF feature = "ai_fixes" THEN 299 ELSE 999]

\* requireFeature as it would be without the return in front of the 403 answer
requireFeature_FallsThrough(feature, req) ==
    LET plan == req.user[1].plan
        gated == [req EXCEPT !.feature = feature]
        denied == [CallNext(gated, "requireFeature") EXCEPT
                       !.res = FeatureDenied(feature, plan), !.sent = @ + 1]
    IN  IF plan \in DOMAIN features
          THEN IF ~Includes(features[plan], feature)
                 THEN denied
               ELSE CallNext(gated, "requireFeature")
        ELSE IF plan \in ObjectPrototypeKeys
          THEN Throw(gated, "requireFeature", "TypeError")
        ELSE denied

\* requireFeature(feature)(req, res, next)
requireFeature(feature, req) ==
    LET plan == req.user[1].plan
        gated == [req EXCEPT !.feature = feature]
    IN  IF plan \in DOMAIN features
          THEN IF ~Includes(features[plan], feature)
                 THEN Respond(gated, "requireFeature", FeatureDenied(feature, plan))
               ELSE CallNext(gated, "requireFeature")
        ELSE IF plan \in ObjectPrototypeKeys
          \* features[plan] is an inherited member without an includes method
          THEN Throw(gated, "requireFeature", "TypeError")
        \* features[plan] is undefined: ?. short-circuits to undefined
        ELSE Respond(gated, "requireFeature", FeatureDenied(feature, plan))

----------------------------------------------------------------------------
(* checkCredits *)

upgradeOptions ==
    [starter    |-> [credits |-> 100,   price |-> 49],
     pro        |-> [credits |-> 1000,  price |-> 399],
     enterprise |-> [credits |-> 10000, price |-> 2999]]

\* checkCredits as it would be with <= in place of <
checkCredits_OffByOne(req) ==
    LET user == req.user[1]
        cost == OrInt(req.body.cost, 1)
        remainingCredits == OrInt(Some(user.credits), 0)
    IN  IF remainingCredits <= cost
          THEN Respond(req, "checkCredits",
                       [status |-> 402, error |-> "Insufficient credits",
                        required |-> cost, remaining |-> remainingCredits,
                        purchaseUrl |-> "/credits", upgradeOptions |-> upgradeOptions])
        ELSE CallNext([req EXCEPT !.user = Some([user EXCEPT !.credits = remainingCredits - cost])],
                      "checkCredits")

\* checkCredits as it would be answering 403 instead of 402
checkCredits_Forbidden(req) ==
    LET user == req.user[1]
        cost == OrInt(req.body.cost, 1)
        remainingCredits == OrInt(Some(user.credits), 0)
    IN  IF remainingCredits < cost
          THEN Respond(req, "checkCredits",
                       [status |-> 403, error |-> "Insufficient credits",
                        required |-> cost, remaining |-> remainingCredits,
                        purchaseUrl |-> "/credits", upgradeOptions |-> upgradeOptions])
        ELSE CallNext([req EXCEPT !.user = Some([user EXCEPT !.credits = remainingCredits - cost])],
                      "checkCredits")

\* checkCredits(req, res, next)
checkCredits(req) ==
    LET user == req.user[1]
        cost == OrInt(req.body.cost, 1)
        remainingCredits == OrInt(Some(user.credits), 0)
    IN  IF remainingCredits < cost
          THEN Respond(req, "checkCredits",
                       [status |-> 402, error |-> "Insufficient credits",
                        required |-> cost, remaining |-> remainingCredits,
                        purchaseUrl |-> "/credits", upgradeOptions |-> upgradeOptions])
        ELSE CallNext([req EXCEPT !.user = Some([user EXCEPT !.credits = remainingCredits - cost])],
                      "checkCredits")

----------------------------------------------------------------------------
(* trackRevenueEvent *)

\* trackRevenueEvent as it would be with req.user.id in place of req.user?.id
trackRevenueEvent_NoOptionalChaining(eventType, req, sinkFails, t) ==
    IF req.user = Undefined
      THEN Throw(req, "trackRevenueEvent", "TypeError")
    ELSE LET event == [type |-> eventType,
                       userId |-> Some(req.user[1].id),
                       plan |-> Some(req.user[1].plan),
                       timestamp |-> t]
         IN  CallNext([req EXCEPT !.events = IF sinkFails THEN @ ELSE Append(@, event)],
                      "trackRevenueEvent")

\* trackRevenueEvent(eventType)(req, res, next) at time t.  The event goes to
\* console.log; the global console ignores the errors of its stream, so a
\* failing sink loses the line and nothing is thrown.
trackRevenueEvent(eventType, req, sinkFails, t) ==
    LET event == [type |-> eventType,
                  userId |-> IF req.user = Undefined THEN Undefined ELSE Some(req.user[1].id),
                  plan |-> IF req.user = Undefined THEN Undefined ELSE Some(req.user[1].plan),
                  timestamp |-> t]
    IN  CallNext([req EXCEPT !.events = IF sinkFails THEN @ ELSE Append(@, event)],
                 "trackRevenueEvent")

----------------------------------------------------------------------------
(* GrokRemediationEngine: generateFix and getFallbackFix *)

\* this.pricing, in thousandths of a dollar (margin in thousandths)
pricing ==
    [altText    |-> [cost |-> 10, sellPrice |-> 500,  margin |-> 980],
     formLabels |-> [cost |-> 20, sellPrice |-> 1000, margin |-> 980],
     focusFix   |-> [cost |-> 10, sellPrice |-> 750,  margin |-> 980],
     contrast   |-> [cost |-> 5,  sellPrice |-> 250,  margin |-> 980]]

\* An element is a sequence of pieces of markup, each a tag or a run of text.
\* element.replace(/<[^>]*>/g, '').trim(): the text that is left without the tags
StripTags(element) ==
    LET keep(piece) == ~piece.tag
        RECURSIVE texts(_)
        texts(ps) == IF ps = << >> THEN << >> ELSE <<Head(ps).text>> \o texts(Tail(ps))
    IN  texts(SelectSeq(element, keep))

\* getWCAGRule(violationType)
getWCAGRule(violationType) ==
    CASE violationType = "altText" -> "1.1.1 Non-text Content"
      [] violationType = "formLabels" -> "3.3.2 Labels or Instructions"
      [] violationType = "focusFix" -> "2.4.7 Focus Visible"
      [] violationType = "contrast" -> "1.4.3 Contrast (Minimum)"
      [] OTHER -> "Unknown"

\* calculateConfidence(response), in hundredths
calculateConfidence(response) ==
    LET text == response.choices[1].message.content
        length == text.length
    IN  IF length > 50 /\ length < 200 THEN 95
        ELSE IF length > 20 /\ length < 300 THEN 85
        ELSE 75

\* getFallbackFix(params)
getFallbackFix(params) ==
    LET fallbacks ==
            [altText    |-> [text |-> "Add descriptive alt-text:", of |-> StripTags(params.element)],
             formLabels |-> [text |-> "Add clear label:", of |-> StripTags(params.element)],
             focusFix   |-> [text |-> "Add visible focus indicator with CSS outline", of |-> << >>],
             contrast   |-> [text |-> "Increase color contrast to meet WCAG AA standards", of |-> << >>]]
    IN  [violationType |-> params.violationType,
         element |-> params.element,
         suggestion |-> IF params.violationType \in DOMAIN fallbacks
                          THEN fallbacks[params.violationType]
                        ELSE [text |-> "Manual fix required", of |-> << >>],
         pricing |-> [cost |-> 0, sellPrice |-> 0, margin |-> 0],
         isFallback |-> TRUE]

\* whether the try block of generateFix throws: callXAI rejects, or the body
\* has no choices[0].message (response.choices[0].message.content throws), or
\* the message has no content (text.length throws in calculateConfidence)
TryThrows(reply) ==
    \/ reply.kind = "error"
    \/ "choices" \notin DOMAIN reply.data
    \/ reply.data.choices = << >>
    \/ "content" \notin DOMAIN reply.data.choices[1].message

\* generateFix as it would be without its try / catch
generateFix_NoCatch(params, reply) ==
    IF ~TryThrows(reply)
      THEN LET price == IF params.violationType \in DOMAIN pricing
                          THEN pricing[params.violationType] ELSE pricing.altText
               response == reply.data
           IN  [rejected |-> FALSE,
                fix |-> [violationType |-> params.violationType,
                         element |-> params.element,
                         suggestion |-> response.choices[1].message.content,
                         pricing |-> price,
                         vertical |-> params.vertical,
                         wcagRule |-> getWCAGRule(params.violationType),
                         hipaaCompliant |-> (params.vertical = "healthcare"),
                         confidence |-> calculateConfidence(response),
                         revenueImpact |-> price.sellPrice]]
    ELSE [rejected |-> TRUE, error |-> reply.kind]

\* generateFix(params), given what the completion provider answers: the value
\* the returned promise settles with.  reply.kind is "ok" (a completion),
\* "malformed" (a body without choices), "nocontent" (a message without
\* content) or "error" (axios rejects).
generateFix(params, reply) ==
    IF ~TryThrows(reply)
      THEN LET price == IF params.violationType \in DOMAIN pricing
                          THEN pricing[params.violationType] ELSE pricing.altText
               response == reply.data
           IN  [rejected |-> FALSE,
                fix |-> [violationType |-> params.violationType,
                         element |-> params.element,
                         suggestion |-> response.choices[1].message.content,
                         pricing |-> price,
                         vertical |-> params.vertical,
                         wcagRule |-> getWCAGRule(params.violationType),
                         hipaaCompliant |-> (params.vertical = "healthcare"),
                         confidence |-> calculateConfidence(response),
                         revenueImpact |-> price.sellPrice]]
    \* callXAI rejected, or response.choices[0] threw: the catch block answers
    ELSE [rejected |-> FALSE, fix |-> getFallbackFix(params)]

----------------------------------------------------------------------------
(* Inputs *)

StartMs == 1500

\* the instants at which something is observed: issue time, the last millisecond
\* of the last valid second, the first expired second (still less than 24 hours
\* after issue), and just past 24 hours after issue
Times == {StartMs,
          (FloorSec(StartMs) + ExpiresInSec) * 1000 - 1,
          (FloorSec(StartMs) + ExpiresInSec) * 1000,
          StartMs + ExpiresInSec * 1000 + 1}

\* plan values handed to generateToken: none, the three tiers, an unknown
\* tier, and an unknown tier that names a member of Object.prototype
PlanInputs == {"", "developer", "compliance", "enterprise", "platinum", "constructor"}

CreditInputs == {Undefined, Some(0), Some(5)}

\* the user records handed to generateToken
Users ==
    {[id |-> "u1", email |-> "u1@example.com", plan |-> p, credits |-> c,
      company |-> "acme", password |-> "hunter2"] : p \in PlanInputs, c \in CreditInputs}

\* a credential that is not a JWT at all
Garbage == [malformed |-> TRUE]

\* a token whose payload was altered after signing
Tamper(tok) == [tok EXCEPT !.payload.credits = @ + 1000]

\* the Authorization headers a client can send
Headers ==
    {[words |-> 0], [words |-> 1], [words |-> 2, credential |-> Garbage]}
    \cup (IF token = Undefined THEN {}
          ELSE {[words |-> 2, credential |-> token[1]],
                [words |-> 2, credential |-> Tamper(token[1])]})

KnownFeatures == {"url_scan", "vertical_discovery", "ai_fixes", "legal_risk",
                  "api_access", "white_label"}

Features == KnownFeatures \cup {"basic_reports", "bulk_export"}

\* the middleware a route mounts behind authenticateToken
Chains == {<< >>, <<"feature">>, <<"credits">>, <<"feature", "credits">>}

\* the features the routes of the pipeline are gated on
RouteFeatures == {"ai_fixes", "basic_reports"}

\* the request bodies sent to the credit-gated routes of the pipeline
RouteBodies == {[cost |-> Undefined], [cost |-> Some(3)]}

\* req.body of a credit-gated route
Bodies == {[cost |-> c] : c \in {Undefined, Some(0), Some(3), Some(4), Some(0 - 2)}}

----------------------------------------------------------------------------
(* Actions of the request pipeline *)

\* time passes
Tick ==
    /\ \E t \in Times : t > now /\ now' = t
    /\ UNCHANGED <<env, batch, token, issued, reqs, log, accepted, limited>>

\* login / signup: generateToken(user)
GenerateToken(u) ==
    /\ token = Undefined
    /\ token' = Some(generateToken(u, now))
    /\ issued' = Some([user |-> u, at |-> now])
    /\ UNCHANGED <<env, batch, now, reqs, log, accepted, limited>>

\* a request with Authorization header h arrives: authenticateToken runs up to
\* the call of the tier limiter it has just created
Authenticate(r, h) ==
    /\ reqs[r].stage = "idle"
    /\ reqs' = [reqs EXCEPT ![r] = authenticateToken([IdleReq EXCEPT !.header = h], now)]
    /\ UNCHANGED <<env, batch, now, token, issued, log, accepted, limited>>

\* a client sends a request with any of the headers it can build
Arrive(r) == \E h \in Headers : Authenticate(r, h)

\* the tier limiter resumes: the request is counted and let through to the
\* route's chain, or answered 429
TierLimiter(r, chain) ==
    /\ reqs[r].stage = "limiter"
    /\ LET after == tierLimiter([reqs[r] EXCEPT !.chain = chain])
       IN  /\ reqs' = [reqs EXCEPT ![r] = after]
           /\ accepted' = IF after.nexts > 0 THEN accepted + 1 ELSE accepted
           /\ limited' = IF after.nexts > 0 THEN limited ELSE limited + 1
    /\ UNCHANGED <<env, batch, now, token, issued, log>>

\* the feature gate mounted as requireFeature(f)
RequireFeature(r, f) ==
    /\ reqs[r].stage = "feature"
    /\ reqs' = [reqs EXCEPT ![r] = requireFeature(f, reqs[r])]
    /\ UNCHANGED <<env, batch, now, token, issued, log, accepted, limited>>

\* the credit gate, with request body b
CheckCredits(r, b) ==
    /\ reqs[r].stage = "credits"
    /\ reqs' = [reqs EXCEPT ![r] = checkCredits([reqs[r] EXCEPT !.body = b])]
    /\ UNCHANGED <<env, batch, now, token, issued, log, accepted, limited>>

Init ==
    /\ env = ConfiguredEnv
    /\ batch = NoBatch
    /\ now = StartMs
    /\ token = Undefined
    /\ issued = Undefined
    /\ reqs = [r \in ReqIds |-> IdleReq]
    /\ log = << >>
    /\ accepted = 0
    /\ limited = 0

Next ==
    \/ Tick
    \/ \E u \in Users : GenerateToken(u)
    \/ \E r \in ReqIds : Arrive(r)
    \/ \E r \in ReqIds : \E chain \in Chains : TierLimiter(r, chain)
    \/ \E r \in ReqIds : \E f \in RouteFeatures : RequireFeature(r, f)
    \/ \E r \in ReqIds : \E b \in RouteBodies : CheckCredits(r, b)

Spec == Init /\ [][Next]_vars

----------------------------------------------------------------------------
(* One caller issuing many requests within one rate-limit window *)

InFlight == Cardinality({r \in ReqIds : reqs[r].stage = "limiter"})

\* the caller sends one more request carrying its token
RateArrive(r) ==
    /\ token # Undefined
    /\ accepted + limited + InFlight < MaxWindowReqs
    /\ Authenticate(r, [words |-> 2, credential |-> token[1]])

\* a request the limiter has dealt with leaves the server
Recycle(r) ==
    /\ reqs[r].stage \notin {"idle", "limiter"}
    /\ reqs' = [reqs EXCEPT ![r] = IdleReq]
    /\ UNCHANGED <<env, batch, now, token, issued, log, accepted, limited>>

NextRate ==
    \/ \E u \in Users : GenerateToken(u)
    \/ \E r \in ReqIds : RateArrive(r)
    \/ \E r \in ReqIds : TierLimiter(r, << >>)
    \/ \E r \in ReqIds : Recycle(r)

SpecRate == Init /\ [][NextRate]_vars

----------------------------------------------------------------------------
(* The gates applied to request objects of several callers *)

\* the request of user u, at time t, once the tier limiter has passed it on
\* to a route with the given chain
AdmittedReq(u, t, chain) ==
    tierLimiter([authenticateToken(
                     [IdleReq EXCEPT !.header = [words |-> 2, credential |-> generateToken(u, t)]],
                     t)
                 EXCEPT !.chain = chain])

InitGate ==
    /\ env = ConfiguredEnv
    /\ batch = NoBatch
    /\ now = StartMs
    /\ token = Undefined
    /\ issued = Undefined
    /\ reqs \in [ReqIds -> {AdmittedReq(u, StartMs, <<"feature">>) : u \in Users}]
    /\ log = << >>
    /\ accepted = MaxReqs
    /\ limited = 0

NextGate == \E r \in ReqIds : \E f \in Features : RequireFeature(r, f)

SpecGate == InitGate /\ [][NextGate]_vars

----------------------------------------------------------------------------
(* checkCredits called repeatedly on one request object *)

Balances == {0, 2, 5, 10}

CreditUsers ==
    {[id |-> "u1", email |-> "u1@example.com", plan |-> "compliance", credits |-> Some(c),
      company |-> "acme", password |-> "hunter2"] : c \in Balances}

\* checkCredits(req, res, next) is called with body b on a request object that
\* already carries an identity; the outcome of the call is logged
CreditCall(r, b) ==
    /\ reqs[r].stage # "idle"
    /\ Len(log) < MaxCalls
    /\ LET before == [reqs[r] EXCEPT !.stage = "credits", !.body = b, !.res = NoResponse]
           after == checkCredits(before)
       IN  /\ reqs' = [reqs EXCEPT ![r] = after]
           /\ log' = Append(log, [before |-> before.user[1].credits,
                                  body |-> b,
                                  passed |-> after.nexts > before.nexts,
                                  res |-> after.res,
                                  after |-> after.user[1].credits])
    /\ UNCHANGED <<env, batch, now, token, issued, accepted, limited>>

InitCredits ==
    /\ env = ConfiguredEnv
    /\ batch = NoBatch
    /\ now = StartMs
    /\ token = Undefined
    /\ issued = Undefined
    /\ \E q \in ReqIds : \E u \in CreditUsers :
          reqs = [r \in ReqIds |-> IF r = q THEN AdmittedReq(u, StartMs, <<"credits">>)
                                    ELSE IdleReq]
    /\ log = << >>
    /\ accepted = 1
    /\ limited = 0

NextCredits == \E r \in ReqIds : \E b \in Bodies : CreditCall(r, b)

SpecCredits == InitCredits /\ [][NextCredits]_vars

----------------------------------------------------------------------------
(* Rate limiting *)

\* C1: when a caller whose tier has ceiling N has issued N+1 requests within
\* one window and the limiter has dealt with all of them, exactly N were
\* accepted and one was answered 429, whatever the interleaving.
C1_ExactlyCeilingAccepted ==
    token # Undefined =>
        LET plan == token[1].payload.plan
            N == CASE plan = "compliance" -> 10000
                   [] plan = "enterprise" -> 100000
                   [] OTHER -> 1000
        IN  (InFlight = 0 /\ accepted + limited = N + 1) => (accepted = N /\ limited = 1)

----------------------------------------------------------------------------
(* Credit gate *)

\* C2: two requests of the same caller never both pass checkCredits when the
\* caller's balance covers the cost of only one of them.
C2_NoDoubleSpend ==
    \A r1, r2 \in ReqIds :
        LET Charged(r) == token[1].payload.credits - reqs[r].user[1].credits
            Passed(r) == /\ reqs[r].stage = "handler"
                         /\ reqs[r].ran # << >>
                         /\ reqs[r].ran[Len(reqs[r].ran)] = "checkCredits"
        IN  (r1 # r2 /\ token # Undefined /\ Passed(r1) /\ Passed(r2))
                => Charged(r1) + Charged(r2) <= token[1].payload.credits

\* C3: in any sequence of checkCredits calls on one identity object, a call
\* charging cost c (req.body.cost, or 1 when that is absent or 0) is allowed
\* iff the current balance is >= c; an allowed call lowers the balance by
\* exactly c; a denied call leaves the balance unchanged and answers 402 with
\* required = c, remaining = the balance and the three credit packages.
C3_ChargeSequence ==
    /\ \A i \in 1..Len(log) :
          LET e == log[i]
              c == IF e.body.cost = << >> THEN 1
                   ELSE IF e.body.cost[1] = 0 THEN 1 ELSE e.body.cost[1]
          IN  /\ e.passed <=> e.before >= c
              /\ e.passed => e.after = e.before - c /\ e.res.status = 0
              /\ ~e.passed =>
                    /\ e.after = e.before
                    /\ e.res.status = 402
                    /\ e.res.required = c
                    /\ e.res.remaining = e.before
                    /\ e.res.upgradeOptions =
                          [starter |-> [credits |-> 100, price |-> 49],
                           pro |-> [credits |-> 1000, price |-> 399],
                           enterprise |-> [credits |-> 10000, price |-> 2999]]
              /\ i > 1 => e.before = log[i - 1].after
    /\ \A r \in ReqIds :
          (log # << >> /\ reqs[r].stage # "idle") => reqs[r].user[1].credits = log[Len(log)].after

\* C3 witness: balance 10 charged 4 three times gives Allowed, Allowed,
\* InsufficientCredits (10, 6, 2)
C3_Witness ==
    /\ Len(log) = 3
    /\ \A i \in 1..3 : log[i].body.cost = <<4>>
    /\ <<log[1].before, log[2].before, log[3].before>> = <<10, 6, 2>>
    /\ <<log[1].passed, log[2].passed, log[3].passed>> = <<TRUE, TRUE, FALSE>>
    /\ log[3].res.required = 4 /\ log[3].res.remaining = 2

\* C4: the identity attached to a request carries the caller's balance less
\* every deduction checkCredits has made so far for that caller.
C4_DeductionNotLost ==
    [][\A r \in ReqIds :
          (reqs[r].stage = "idle" /\ reqs'[r].stage = "limiter") =>
              LET Deducted(q) == IF reqs[q].user = << >> THEN 0
                                 ELSE token[1].payload.credits - reqs[q].user[1].credits
                  RECURSIVE Sum(_)
                  Sum(n) == IF n = 0 THEN 0 ELSE Deducted(n) + Sum(n - 1)
              IN  reqs'[r].user[1].credits = token[1].payload.credits - Sum(MaxReqs)]_vars

----------------------------------------------------------------------------
(* Feature gate *)

\* C5: requireFeature(feature) lets a request of one of the three tiers
\* through iff the pair (tier, feature) is in the static allow-list table;
\* a feature that is not in the table is denied for every tier.
C5_MatchesAllowList ==
    LET table ==
            ({"developer"} \X {"url_scan", "basic_reports"})
            \cup ({"compliance"} \X {"url_scan", "vertical_discovery", "ai_fixes", "legal_risk"})
            \cup ({"enterprise"} \X {"url_scan", "vertical_discovery", "ai_fixes", "legal_risk",
                                     "api_access", "white_label"})
    IN  \A r \in ReqIds :
            LET q == reqs[r]
            IN  (q.feature # "" /\ q.user[1].plan \in {"developer", "compliance", "enterprise"}) =>
                    IF <<q.user[1].plan, q.feature>> \in table
                      THEN q.stage = "handler" /\ q.nexts = 2 /\ q.res.status = 0
                    ELSE q.stage = "done" /\ q.nexts = 1 /\ q.res.status = 403
                         /\ q.res.error = "Feature not available in your plan"

\* C5 witness: one tier is let through for a feature of its list while a
\* request for a feature outside every list is denied
C5_Witness ==
    \E r1, r2 \in ReqIds :
        /\ reqs[r1].user[1].plan = "compliance" /\ reqs[r1].feature = "legal_risk"
        /\ reqs[r1].stage = "handler"
        /\ reqs[r2].user[1].plan = "enterprise" /\ reqs[r2].feature = "bulk_export"
        /\ reqs[r2].stage = "done"

\* C6: every identity that token verification attaches to a request has a
\* plan tier among developer, compliance, enterprise, and no stage throws.
C6_TierAlwaysKnown ==
    \A r \in ReqIds :
        /\ reqs[r].user # << >> => reqs[r].user[1].plan \in {"developer", "compliance", "enterprise"}
        /\ reqs[r].stage # "error"

\* C7: a request whose identity carries an unknown tier is denied by
\* requireFeature for every feature, with the FeatureDenied response and
\* without a call of next.
C7_UnknownTierDenied ==
    \A r \in ReqIds :
        LET q == reqs[r]
        IN  (q.feature # "" /\ q.user[1].plan \notin {"developer", "compliance", "enterprise"}) =>
                /\ q.stage = "done"
                /\ q.nexts = 1
                /\ q.res.status = 403
                /\ q.res.error = "Feature not available in your plan"

\* C8: the allow-lists are cumulative: a feature that lets a developer
\* request through lets a compliance request through, and a feature that lets
\* a compliance request through lets an enterprise request through.
C8_TiersCumulative ==
    \A r1, r2 \in ReqIds :
        LET q1 == reqs[r1]
            q2 == reqs[r2]
        IN  (/\ q1.feature # "" /\ q2.feature = q1.feature
             /\ <<q1.user[1].plan, q2.user[1].plan>> \in
                    {<<"developer", "compliance">>, <<"compliance", "enterprise">>}
             /\ q1.stage = "handler")
                => q2.stage = "handler"

----------------------------------------------------------------------------
(* Token issue and verification *)

\* C9 as stated: the three failure cases of token verification (no token
\* presented; malformed token or bad signature; expired token) get responses
\* that tell them apart, and next is called in none of them.
C9_ThreeFailureCases ==
    \A r1, r2 \in ReqIds :
        LET Rejected(q) == q.stage = "done" /\ q.ran = <<"authenticateToken">>
            Cause(q) == IF BearerToken(q.header) = << >> THEN "Missing"
                        ELSE IF token = << >> \/ q.header.credential # token[1] THEN "Invalid"
                        ELSE "Expired"
        IN  (Rejected(reqs[r1]) /\ Rejected(reqs[r2])) =>
                /\ reqs[r1].nexts = 0
                /\ Cause(reqs[r1]) # Cause(reqs[r2]) => reqs[r1].res # reqs[r2].res

\* C9 as amended: token verification tells two failure cases apart: no token
\* presented is answered 401 "Authentication required"; a malformed token, a
\* bad signature and an expired token are all answered 403 "Invalid or
\* expired token".  It never throws, and next is called in neither case.
C9_TwoFailureCases ==
    [][\A r \in ReqIds :
          (reqs[r].stage = "idle" /\ reqs'[r].stage # "idle") =>
              LET q == reqs'[r]
                  tok == BearerToken(q.header)
                  Rejected(status, error) ==
                      /\ q.stage = "done" /\ q.nexts = 0 /\ q.user = << >>
                      /\ q.res.status = status /\ q.res.error = error
              IN  IF tok = << >>
                    THEN Rejected(401, "Authentication required")
                  ELSE IF \/ token = << >>
                          \/ tok[1] # token[1]
                          \/ now \div 1000 >= issued[1].at \div 1000 + 86400
                    THEN Rejected(403, "Invalid or expired token")
                  ELSE q.stage = "limiter" /\ q.nexts = 0 /\ q.res.status = 0]_vars

\* C9 witness: an expired token and a tampered token have both been answered,
\* with the same response
C9_Witness ==
    \E r1, r2 \in ReqIds :
        /\ token # << >>
        /\ reqs[r1].stage = "done" /\ reqs[r1].header.words = 2
        /\ reqs[r1].header.credential = token[1]
        /\ reqs[r2].stage = "done" /\ reqs[r2].header.words = 2
        /\ reqs[r2].header.credential = Tamper(token[1])
        /\ reqs[r1].res = reqs[r2].res

\* C10 as stated: for a valid identity, verifying its token within 24 hours of
\* issue yields exactly the issued claims (id, email, plan, credits, company),
\* and verifying it later than that is rejected.
C10_RoundTripExact ==
    [][\A r \in ReqIds :
          (/\ reqs[r].stage = "idle" /\ reqs'[r].stage # "idle"
           /\ token # << >>
           /\ BearerToken(reqs'[r].header) = token
           /\ issued[1].user.plan \in {"developer", "compliance", "enterprise"}
           /\ issued[1].user.credits # << >>) =>
              LET q == reqs'[r]
                  u == issued[1].user
                  dayMs == 24 * 60 * 60 * 1000
              IN  /\ now < issued[1].at + dayMs =>
                        /\ q.stage = "limiter"
                        /\ q.user = <<[id |-> u.id, email |-> u.email, plan |-> u.plan,
                                       credits |-> u.credits[1], company |-> u.company]>>
                  /\ now > issued[1].at + dayMs =>
                        q.stage = "done" /\ q.res.status = 403]_vars

\* C10 as amended: for a valid identity, verifying its token before the
\* token's exp (iat + 86400 s, iat being the issue time cut to whole seconds,
\* so up to 999 ms less than 24 hours after issue) yields the five issued
\* claims unchanged together with the iat and exp claims that signing adds;
\* verifying it at or after exp is answered 403 "Invalid or expired token".
C10_RoundTripUntilExp ==
    [][\A r \in ReqIds :
          (/\ reqs[r].stage = "idle" /\ reqs'[r].stage # "idle"
           /\ token # << >>
           /\ BearerToken(reqs'[r].header) = token
           /\ issued[1].user.plan \in {"developer", "compliance", "enterprise"}
           /\ issued[1].user.credits # << >>) =>
              LET q == reqs'[r]
                  u == issued[1].user
                  iat == issued[1].at \div 1000
              IN  IF now \div 1000 < iat + 86400
                    THEN /\ q.stage = "limiter"
                         /\ q.user = <<[id |-> u.id, email |-> u.email, plan |-> u.plan,
                                        credits |-> u.credits[1], company |-> u.company,
                                        iat |-> iat, exp |-> iat + 86400]>>
                  ELSE /\ q.stage = "done"
                       /\ q.res.status = 403
                       /\ q.res.error = "Invalid or expired token"]_vars

\* C10 witness: a valid identity's token was verified and attached to one
\* request, and rejected on another request in the first second of exp, less
\* than 24 hours after issue
C10_Witness ==
    /\ token # << >>
    /\ issued[1].user.plan = "compliance" /\ issued[1].user.credits = <<5>>
    /\ now = token[1].payload.exp * 1000
    /\ now < issued[1].at + 24 * 60 * 60 * 1000
    /\ \E r1, r2 \in ReqIds :
          /\ BearerToken(reqs[r1].header) = token /\ reqs[r1].user # << >>
          /\ BearerToken(reqs[r2].header) = token /\ reqs[r2].stage = "done"
          /\ reqs[r2].ran = <<"authenticateToken">>

\* C17: whatever cost the request body carries (absent, zero, positive or
\* negative), a checkCredits call never raises the balance and never leaves
\* it negative.
C17_BalanceNeverGrows ==
    \A i \in 1..Len(log) : 0 <= log[i].after /\ log[i].after <= log[i].before

----------------------------------------------------------------------------
(* Limiter configuration *)

\* C12: the limiter createRateLimit(tier) builds has a 15-minute window and
\* ceiling 1,000 for developer, 10,000 for compliance, 100,000 for
\* enterprise, and the developer ceiling for every other tier value.
C12_LimiterTable ==
    \A r \in ReqIds :
        reqs[r].limiter # << >> =>
            LET limiter == reqs[r].limiter[1]
                tier == limiter.message.tier
            IN  /\ limiter.windowMs = <<900000>>
                /\ limiter.max = <<CASE tier = "developer" -> 1000
                                     [] tier = "compliance" -> 10000
                                     [] tier = "enterprise" -> 100000
                                     [] OTHER -> 1000>>

----------------------------------------------------------------------------
(* Denial responses *)

\* C13 as stated: every denial response carries a machine-readable error
\* code (AUTH_REQUIRED, AUTH_INVALID, RATE_LIMITED, FEATURE_DENIED,
\* INSUFFICIENT_CREDITS) matching the denial kind, and human-readable
\* guidance.
C13_ErrorCodes ==
    \A r \in ReqIds :
        reqs[r].stage = "done" =>
            LET q == reqs[r]
                by == q.ran[Len(q.ran)]
            IN  /\ "code" \in DOMAIN q.res
                /\ q.res.code =
                      CASE by = "authenticateToken" /\ BearerToken(q.header) = << >> -> "AUTH_REQUIRED"
                        [] by = "authenticateToken" /\ BearerToken(q.header) # << >> -> "AUTH_INVALID"
                        [] by = "tierLimiter" -> "RATE_LIMITED"
                        [] by = "requireFeature" -> "FEATURE_DENIED"
                        [] OTHER -> "INSUFFICIENT_CREDITS"
                /\ "error" \in DOMAIN q.res

\* C13 as amended: every denial response carries an HTTP status and a
\* human-readable error text that together identify the denial kind, and no
\* error-code field: 401 "Authentication required" with pricingUrl, 403
\* "Invalid or expired token" with "Please refresh your session", 403
\* "Feature not available in your plan" with upgradeUrl and upgradePrice, 402
\* "Insufficient credits" with purchaseUrl and upgradeOptions; the body
\* configured for the 429 answer is "Rate limit exceeded" with an upgradeUrl.
C13_StatusAndText ==
    \A r \in ReqIds :
        LET q == reqs[r]
        IN  /\ q.limiter # << >> =>
                  /\ q.limiter[1].message.error = "Rate limit exceeded"
                  /\ q.limiter[1].message.upgradeUrl \in {"/pricing", "/contact"}
            /\ q.stage = "done" =>
                  LET by == q.ran[Len(q.ran)]
                  IN  /\ "code" \notin DOMAIN q.res
                      /\ by = "authenticateToken" /\ BearerToken(q.header) = << >> =>
                            /\ q.res.status = 401 /\ q.res.error = "Authentication required"
                            /\ q.res.message = "Please sign in or upgrade your plan"
                            /\ q.res.pricingUrl = "/pricing"
                      /\ by = "authenticateToken" /\ BearerToken(q.header) # << >> =>
                            /\ q.res.status = 403 /\ q.res.error = "Invalid or expired token"
                            /\ q.res.message = "Please refresh your session"
                      /\ by = "tierLimiter" =>
                            /\ q.res.status = 429 /\ q.res.message = q.limiter[1].message
                      /\ by = "requireFeature" =>
                            /\ q.res.status = 403
                            /\ q.res.error = "Feature not available in your plan"
                            /\ q.res.upgradeUrl = "/pricing"
                            /\ q.res.upgradePrice \in {299, 999}
                      /\ by = "checkCredits" =>
                            /\ q.res.status = 402 /\ q.res.error = "Insufficient credits"
                            /\ q.res.purchaseUrl = "/credits"
                            /\ DOMAIN q.res.upgradeOptions = {"starter", "pro", "enterprise"}

\* C13 witness: one request was denied by the credit gate and another by the
\* feature gate
C13_Witness ==
    \E r1, r2 \in ReqIds :
        /\ reqs[r1].stage = "done" /\ reqs[r1].res.status = 402
        /\ reqs[r2].stage = "done" /\ reqs[r2].res.status = 403
        /\ reqs[r2].feature # ""

----------------------------------------------------------------------------
(* Order of the stages *)

\* C11: a request reaches the handler only after passing, in this order,
\* token verification, the tier limiter, the feature gate (when mounted) and
\* the credit gate (when mounted); a request denied at a stage has exactly
\* one response, no later stage runs for it, and no credits are deducted for
\* a request rejected by authentication, the limiter or the feature gate.
C11_StagesInOrder ==
    \A r \in ReqIds :
        LET q == reqs[r]
            n == Len(q.ran)
            gates == IF n > 2 THEN SubSeq(q.ran, 3, n) ELSE << >>
            Intact == q.user # << >> => q.user[1].credits = token[1].payload.credits
        IN  /\ n >= 1 => q.ran[1] = "authenticateToken"
            /\ n >= 2 => q.ran[2] = "tierLimiter"
            /\ gates \in {<< >>, <<"requireFeature">>, <<"checkCredits">>,
                          <<"requireFeature", "checkCredits">>}
            /\ q.stage = "handler" =>
                  /\ n >= 2 /\ q.nexts = n - 1 /\ q.chain = << >>
                  /\ q.sent = 0 /\ q.res.status = 0
            /\ q.stage \in {"done", "error"} =>
                  /\ q.sent = 1 /\ q.res.status # 0
                  /\ q.nexts = (IF n >= 2 THEN n - 2 ELSE 0)
                  /\ q.ran[n] # "checkCredits" => Intact
            /\ q.stage \in {"limiter", "feature", "credits"} =>
                  /\ q.sent = 0 /\ q.res.status = 0 /\ Intact

\* C11 witness: one request went through all four stages to the handler while
\* another, stopped by the feature gate, kept its balance
C11_Witness ==
    \E r1, r2 \in ReqIds :
        /\ reqs[r1].stage = "handler"
        /\ reqs[r1].ran = <<"authenticateToken", "tierLimiter", "requireFeature", "checkCredits">>
        /\ reqs[r2].stage = "done"
        /\ reqs[r2].ran = <<"authenticateToken", "tierLimiter", "requireFeature">>
        /\ reqs[r2].chain = <<"credits">>
        /\ reqs[r2].user[1].credits = 5

----------------------------------------------------------------------------
(* Startup with and without a configured signing secret *)

InitBoot ==
    /\ env \in Envs
    /\ batch = NoBatch
    /\ now = StartMs
    /\ token = Undefined
    /\ issued = Undefined
    /\ reqs = [r \in ReqIds |-> IdleReq]
    /\ log = << >>
    /\ accepted = 0
    /\ limited = 0

NextBoot ==
    \/ \E u \in Users : GenerateToken(u)
    \/ \E r \in ReqIds : Arrive(r)
    \/ \E r \in ReqIds : TierLimiter(r, << >>)

SpecBoot == InitBoot /\ [][NextBoot]_vars

\* C16: a process started in production without a signing secret never
\* issues or verifies a token, and the hardcoded fallback key signs tokens
\* only in development.
C16_NoSecretNoTokens ==
    /\ (env.NODE_ENV = "production" /\ env.JWT_SECRET = "") =>
          /\ token = << >>
          /\ \A r \in ReqIds : reqs[r].stage = "idle"
    /\ (token # << >> /\ token[1].mac.key = "wcagai-v4-revenue-secret-2025") =>
          env.NODE_ENV = "development"

----------------------------------------------------------------------------
(* The revenue-event logger, on routes with and without authentication *)

EventTypes == {"scan_started", "fix_purchased"}

\* the revenue-event logger mounted with event type e; the sink may fail
TrackRevenueEvent(r, e, sinkFails) ==
    /\ reqs[r].stage = "track"
    /\ reqs' = [reqs EXCEPT ![r] = trackRevenueEvent(e, reqs[r], sinkFails, now)]
    /\ UNCHANGED <<env, batch, now, token, issued, log, accepted, limited>>

InitTrack ==
    /\ env = ConfiguredEnv
    /\ batch = NoBatch
    /\ now = StartMs
    /\ token = Undefined
    /\ issued = Undefined
    /\ reqs \in [ReqIds -> {[IdleReq EXCEPT !.stage = "track"]}
                           \cup {AdmittedReq(u, StartMs, <<"track">>) : u \in Users}]
    /\ log = << >>
    /\ accepted = Cardinality({r \in ReqIds : reqs[r].user # Undefined})
    /\ limited = 0

NextTrack ==
    \E r \in ReqIds : \E e \in EventTypes : \E sinkFails \in BOOLEAN :
        TrackRevenueEvent(r, e, sinkFails)

SpecTrack == InitTrack /\ [][NextTrack]_vars

\* C14: for every request, with or without an authenticated user, and
\* whether or not the logging sink fails, trackRevenueEvent calls next
\* exactly once and neither answers nor fails the request.
C14_AlwaysCallsNext ==
    [][\A r \in ReqIds :
          (reqs[r].stage = "track" /\ reqs'[r] # reqs[r]) =>
              /\ reqs'[r].nexts = reqs[r].nexts + 1
              /\ reqs'[r].stage = "handler"
              /\ reqs'[r].sent = 0 /\ reqs'[r].res.status = 0
              /\ reqs'[r].user = reqs[r].user]_vars

\* C14 witness: a request without a user went on although the sink failed,
\* and the event of a request with a user was logged
C14_Witness ==
    \E r1, r2 \in ReqIds :
        /\ reqs[r1].user = << >> /\ reqs[r1].stage = "handler" /\ reqs[r1].events = << >>
        /\ reqs[r2].user # << >> /\ reqs[r2].stage = "handler"
        /\ Len(reqs[r2].events) = 1 /\ reqs[r2].events[1].userId = <<"u1">>

----------------------------------------------------------------------------
(* generateBatchFixes *)

MaxViolations == 7   \* violations handed to one generateBatchFixes call

batchSize == 5

Min(a, b) == IF a < b THEN a ELSE b

\* sample violations, one per violation type and one of an unknown type
Catalogue ==
    <<[violationType |-> "altText",
       element |-> <<[tag |-> TRUE, text |-> "<img src=logo.png>"]>>],
      [violationType |-> "formLabels",
       element |-> <<[tag |-> TRUE, text |-> "<input>"], [tag |-> FALSE, text |-> "Email"]>>],
      [violationType |-> "focusFix",
       element |-> <<[tag |-> TRUE, text |-> "<a>"], [tag |-> FALSE, text |-> "Home"],
                     [tag |-> TRUE, text |-> "</a>"]>>],
      [violationType |-> "contrast",
       element |-> <<[tag |-> TRUE, text |-> "<p>"], [tag |-> FALSE, text |-> "Terms"]>>],
      [violationType |-> "headingOrder",
       element |-> <<[tag |-> TRUE, text |-> "<h3>"], [tag |-> FALSE, text |-> "Pricing"]>>]>>

\* the violation lists of a scan: up to MaxViolations entries of the catalogue
ViolationLists ==
    {[j \in 1..n |-> Catalogue[((j - 1 + k) % Len(Catalogue)) + 1]] :
        n \in 0..MaxViolations, k \in 0..(Len(Catalogue) - 1)}

Verticals == {"default", "healthcare"}

\* what the completion provider can answer to one call
Replies ==
    {[kind |-> "ok",
      data |-> [choices |-> <<[message |->
                                  [content |-> [text |-> "Add alt text describing the image",
                                                length |-> 33]]]>>]],
     [kind |-> "malformed", data |-> [error |-> "Invalid request"]],
     [kind |-> "nocontent", data |-> [choices |-> <<[message |-> [role |-> "assistant"]]>>]],
     [kind |-> "error"]}

\* the indices (from 1) of violations.slice(i, i + batchSize), as if the end
\* of the slice had been left out
Slice_NoEnd(n, i) == (i + 1)..n

\* the indices (from 1) of violations.slice(i, i + batchSize)
Slice(n, i) == (i + 1)..Min(i + batchSize, n)

\* batch.map(violation => this.generateFix({...violation, vertical})): every
\* call of the batch runs up to its await of the provider
StartCalls(b, i) ==
    [b EXCEPT !.i = i,
              !.pc = "batch",
              !.calls = [j \in DOMAIN b.calls |->
                            IF j \in Slice(Len(b.violations), i) THEN [st |-> "pending"]
                            ELSE b.calls[j]]]

\* generateBatchFixes(violations, vertical) is called
GenerateBatchFixes(vs, vertical) ==
    /\ batch.pc = "none"
    /\ LET fresh == [pc |-> "batch", violations |-> vs, vertical |-> vertical, i |-> 0,
                     calls |-> [j \in 1..Len(vs) |-> [st |-> "idle"]], fixes |-> << >>]
       IN  batch' = IF Len(vs) = 0 THEN [fresh EXCEPT !.pc = "done"]
                    ELSE StartCalls(fresh, 0)
    /\ UNCHANGED <<env, now, token, issued, reqs, log, accepted, limited>>

\* the provider answers the call made for violation j, and generateFix settles
ProviderReply(j, reply) ==
    /\ batch.pc = "batch"
    /\ j \in DOMAIN batch.calls
    /\ batch.calls[j].st = "pending"
    /\ LET params == [violationType |-> batch.violations[j].violationType,
                      element |-> batch.violations[j].element,
                      vertical |-> batch.vertical]
       IN  batch' = [batch EXCEPT !.calls[j] =
                        [st |-> "settled", reply |-> reply.kind,
                         result |-> generateFix(params, reply)]]
    /\ UNCHANGED <<env, now, token, issued, reqs, log, accepted, limited>>

\* Promise.all of the batch settles: its fixes are pushed in order, then the
\* loop sleeps before the next batch or ends
BatchSettled ==
    /\ batch.pc = "batch"
    /\ LET n == Len(batch.violations)
           slice == Slice(n, batch.i)
           RECURSIVE collect(_)
           collect(j) == IF j \notin slice THEN << >>
                         ELSE <<batch.calls[j].result.fix>> \o collect(j + 1)
       IN  IF \E j \in slice : batch.calls[j].st = "settled" /\ batch.calls[j].result.rejected
             THEN batch' = [batch EXCEPT !.pc = "rejected"]
           ELSE /\ \A j \in slice : batch.calls[j].st = "settled"
                /\ batch' = [batch EXCEPT
                                !.fixes = @ \o collect(batch.i + 1),
                                !.pc = IF batch.i + batchSize < n THEN "delay" ELSE "done"]
    /\ UNCHANGED <<env, now, token, issued, reqs, log, accepted, limited>>

\* the pause between two batches is over: the next batch starts
DelayElapsed ==
    /\ batch.pc = "delay"
    /\ batch' = StartCalls(batch, batch.i + batchSize)
    /\ UNCHANGED <<env, now, token, issued, reqs, log, accepted, limited>>

InitBatch ==
    /\ env = ConfiguredEnv
    /\ batch = NoBatch
    /\ now = StartMs
    /\ token = Undefined
    /\ issued = Undefined
    /\ reqs = [r \in ReqIds |-> IdleReq]
    /\ log = << >>
    /\ accepted = 0
    /\ limited = 0

NextBatch ==
    \/ \E vs \in ViolationLists : \E vertical \in Verticals : GenerateBatchFixes(vs, vertical)
    \/ \E j \in 1..MaxViolations : \E reply \in Replies : ProviderReply(j, reply)
    \/ BatchSettled
    \/ DelayElapsed

SpecBatch == InitBatch /\ [][NextBatch]_vars

====
